---- MODULE Spec2Model ----
(***************************************************************************)
(* A model of src/agent/agent.py: the entrypoint of one voice session, the *)
(* handlers it registers (data channel, transcript, termination signals),  *)
(* the popup tools of VocalizeAgent and the Notion persistence thread.     *)
(*                                                                         *)
(* Text is a sequence of one-character strings, so that str.strip() and    *)
(* str.startswith() are computed and not assumed.  A JSON value is a       *)
(* record [k, s, f]: its kind, its text when it is a string, its members   *)
(* when it is an object.                                                   *)
(***************************************************************************)
EXTENDS Integers, Sequences, FiniteSets, TLC

\* ------------------------------------------------------------------ bounds
MaxSignals == 2   \* termination signals fired in one session (both kinds together)
MaxItems == 1     \* conversation items the session commits
MaxData == 1      \* handle_email_response tasks created in one session
MaxDuplicates == 2  \* the same, where duplicate email_response messages are studied
MaxLateItems == 2 \* committed items, where items after the session end are studied
MaxOtherDisconnects == 2 \* disconnects of participants other than the original one
MaxResults == 6   \* results in one response of the search provider

\* -------------------------------------------------------------------- text
Empty == << >>
Space == " "

RECURSIVE LStrip(_)
LStrip(s) == IF s # Empty /\ Head(s) = Space THEN LStrip(Tail(s)) ELSE s

RECURSIVE RStrip(_)
RStrip(s) ==
  IF s # Empty /\ s[Len(s)] = Space THEN RStrip(SubSeq(s, 1, Len(s) - 1)) ELSE s

\* str.strip()
Strip(s) == RStrip(LStrip(s))

\* str.startswith(p)
StartsWith(s, p) == Len(s) >= Len(p) /\ SubSeq(s, 1, Len(p)) = p

\* p in s
Contains(s, p) ==
  \E i \in 1..(Len(s) - Len(p) + 1) : SubSeq(s, i, i + Len(p) - 1) = p

\* -------------------------------------------------------------------- JSON
NoMembers == << >>
JNull == [k |-> "null", s |-> Empty, f |-> NoMembers]
JNum == [k |-> "num", s |-> Empty, f |-> NoMembers]     \* a non-zero number
JList == [k |-> "list", s |-> Empty, f |-> NoMembers]   \* a non-empty list
JStr(t) == [k |-> "str", s |-> t, f |-> NoMembers]
JObj(members) == [k |-> "obj", s |-> Empty, f |-> members]

\* Python truthiness of a decoded JSON value
Truthy(v) ==
  CASE v.k = "null" -> FALSE
    [] v.k = "str" -> v.s # Empty
    [] v.k = "obj" -> DOMAIN v.f # {}
    [] OTHER -> TRUE

\* The outcome of a Python expression: a value, or the exception it raised.
Ok(v) == [exc |-> "none", val |-> v]
Raise(e) == [exc |-> e, val |-> JNull]

\* obj.get(key, default): only a dict has .get
DictGet(obj, key, default) ==
  IF obj.k # "obj" THEN Raise("AttributeError")
  ELSE IF key \in DOMAIN obj.f THEN Ok(obj.f[key]) ELSE Ok(default)

\* A handler that forgets .strip(): the text is taken as it came.
StrNoStrip(v) ==
  IF v.k # "str" THEN Raise("AttributeError") ELSE Ok(v)

\* value.strip(): only a str has .strip
StrStrip(v) ==
  IF v.k # "str" THEN Raise("AttributeError") ELSE Ok(JStr(Strip(v.s)))

\* A text handed to json.loads: not decodable, or the encoding of a value.
NotJson == [syn |-> "invalid", val |-> JNull]
Json(v) == [syn |-> "valid", val |-> v]

\* json.loads(text)
JsonLoads(text) ==
  IF text.syn = "invalid" THEN Raise("JSONDecodeError") ELSE Ok(text.val)

\* ------------------------------------------------- participant metadata
\* participant.metadata: absent/empty, or a text
NoMetadata == [present |-> FALSE, text |-> NotJson]
Metadata(text) == [present |-> TRUE, text |-> text]

parse_participant_metadata(metadata) ==
  IF ~metadata.present THEN Ok(JObj(NoMembers))
  ELSE LET r == JsonLoads(metadata.text)
       IN IF r.exc = "JSONDecodeError" THEN Ok(JObj(NoMembers)) ELSE r

\* The blocks of an instruction text, in order.
Block(tag, text) == [tag |-> tag, text |-> text]
DEFAULT_SYSTEM_PROMPT == <<Block("default", Empty)>>
PHONE_AGENT_INSTRUCTIONS == <<Block("phone", Empty)>>
ContextBlock(details) == Block("context", details)
VoiceBlock == Block("voice", Empty)
EmailAddendum == Block("email_capability", Empty)

\* if not persona and not business_details
UsesDefaultForPersonaOnly(persona, business_details) == persona = Empty

UsesDefault(persona, business_details) == persona = Empty /\ business_details = Empty

\* The custom prompt with the email instructions put first.
AddendumFirst(persona, business_details) ==
  <<EmailAddendum>>
  \o (IF persona # Empty THEN <<Block("persona", persona)>> ELSE DEFAULT_SYSTEM_PROMPT)
  \o (IF business_details # Empty THEN <<ContextBlock(business_details)>> ELSE << >>)
  \o <<VoiceBlock>>

\* prompt_parts, joined
PromptParts(persona, business_details) ==
  (IF persona # Empty THEN <<Block("persona", persona)>> ELSE DEFAULT_SYSTEM_PROMPT)
  \o (IF business_details # Empty THEN <<ContextBlock(business_details)>> ELSE << >>)
  \o <<VoiceBlock, EmailAddendum>>

build_system_prompt(metadata) ==
  LET p0 == DictGet(metadata, "persona", JStr(Empty))
      p == IF p0.exc = "none" THEN StrStrip(p0.val) ELSE p0
      b0 == DictGet(metadata, "businessDetails", JStr(Empty))
      b == IF b0.exc = "none" THEN StrStrip(b0.val) ELSE b0
  IN IF p.exc # "none" THEN [exc |-> p.exc, val |-> << >>]
     ELSE IF b.exc # "none" THEN [exc |-> b.exc, val |-> << >>]
     ELSE IF UsesDefault(p.val.s, b.val.s)
          THEN [exc |-> "none", val |-> DEFAULT_SYSTEM_PROMPT]
     ELSE [exc |-> "none", val |-> PromptParts(p.val.s, b.val.s)]

\* An is_phone_call without the test for "_+" in the room name.
IsPhoneCallBySigilOnly(id, room) ==
  \/ StartsWith(id, <<"s", "i", "p", "_">>)
  \/ StartsWith(id, <<"s", "i", "p", ":">>)
  \/ StartsWith(id, <<"+">>)
  \/ StartsWith(room, <<"s", "i", "p", "-">>)

\* is_phone_call
IsPhoneCall(identity, room) ==
  \/ StartsWith(identity, <<"s", "i", "p", "_">>)
  \/ StartsWith(identity, <<"s", "i", "p", ":">>)
  \/ StartsWith(identity, <<"+">>)
  \/ StartsWith(room, <<"s", "i", "p", "-">>)
  \/ Contains(room, <<"_", "+">>)

\* ------------------------------------------------------------------- state
VARIABLES
  pc,                \* entrypoint: waiting, starting, greeting, registered, crashed
  identity,          \* participant.identity
  room_name,         \* ctx.room.name
  is_phone_call,
  metadata_dict,     \* metadata, the decoded participant metadata
  user_name,         \* metadata.get("userName", "")
  system_prompt,     \* the instructions handed to VocalizeAgent
  instructions,      \* the instructions VocalizeAgent hands to Agent
  greeting,          \* which greeting_instruction was requested
  faults,            \* the functions an exception has escaped from
  messages,          \* conversation_tracker.messages
  committed,         \* the recordable items the session has committed since it started
  notion_saved,      \* notion_saved["done"]
  sessionEndLogs,    \* calls of log_session_end
  sinkPending,       \* persistence threads started and not yet run
  sinkResults,       \* what each persistence thread did
  sinkCalls,         \* calls of notion_client.pages.create
  notionConfigured,  \* notion_client and NOTION_DATABASE_ID are set
  received_email,    \* received_email["value"]
  tasks,             \* handle_email_response tasks created and not yet run (FIFO)
  replies,           \* the emails generate_reply was called with, in order
  handshake,         \* the email-entry handshake: Idle, AwaitingInput or Resolved
  dataLog,           \* what the last call of on_data_received logged
  closeFired,        \* 'close' events the session emitted
  discFired,         \* 'participant_disconnected' events of the original participant
  closeSeen,         \* calls of on_session_close
  discSeen,          \* calls of on_participant_disconnected for the original participant
  otherSeen,         \* calls of on_participant_disconnected for another participant
  active_language,   \* the language tag hybrid_tts holds
  synth,             \* the synthesis call in flight: the backend it started and runs on
  published,         \* the last message a tool published on the data channel
  search_results,    \* response["results"] of the last search that published
  mail,              \* the last call of send_email_via_resend and how it ended
  reported           \* the last non-empty language a user_input_transcribed event
                     \* carried: of any event, and of a final one

vars == <<pc, identity, room_name, is_phone_call, metadata_dict, user_name, system_prompt, greeting,
          faults, messages, committed, notion_saved, sessionEndLogs, sinkPending,
          sinkResults, sinkCalls, notionConfigured, received_email, tasks, replies,
          handshake, dataLog, closeFired, discFired, closeSeen, discSeen, otherSeen,
          instructions, active_language, synth, reported, published,
          search_results, mail>>

startVars == <<identity, room_name, is_phone_call, metadata_dict, user_name, system_prompt,
               instructions>>
latchVars == <<notion_saved, sessionEndLogs, sinkPending>>
sinkVars == <<sinkResults, sinkCalls, notionConfigured>>
emailVars == <<received_email, tasks, replies, dataLog>>
signalVars == <<closeFired, discFired, closeSeen, discSeen, otherSeen>>
langVars == <<active_language, synth, reported>>
toolVars == <<published, search_results, mail>>

None == [k |-> "none", s |-> Empty, f |-> NoMembers]   \* Python's None in a slot
\* send_email_via_resend was not called yet.
NoMail == [configured |-> FALSE, to |-> Empty, body |-> "none", provider |-> "not_reached",
           exc |-> "none", success |-> FALSE, message |-> "none"]
NoCall == [started |-> "none", current |-> "none"]     \* no synthesis call in flight

\* A message a tool publishes to the frontend: its type and, for
\* search_sources, its sources.
ControlMessage(type) == [type |-> type, sources |-> << >>]

Init ==
  /\ pc = "waiting"
  /\ identity = Empty
  /\ room_name = Empty
  /\ is_phone_call = FALSE
  /\ metadata_dict = None
  /\ user_name = JStr(Empty)
  /\ system_prompt = << >>
  /\ instructions = << >>
  /\ greeting = "none"
  /\ faults = {}
  /\ messages = << >>
  /\ committed = << >>
  /\ notion_saved = FALSE
  /\ sessionEndLogs = 0
  /\ sinkPending = 0
  /\ sinkResults = << >>
  /\ sinkCalls = 0
  /\ notionConfigured \in BOOLEAN
  /\ received_email = None
  /\ tasks = << >>
  /\ replies = << >>
  /\ handshake = "Idle"
  /\ dataLog = "none"
  /\ closeFired = 0
  /\ discFired = 0
  /\ closeSeen = 0
  /\ discSeen = 0
  /\ otherSeen = 0
  /\ active_language = None
  /\ synth = NoCall
  /\ reported = [any |-> None, final |-> None]
  /\ published = ControlMessage("none")
  /\ search_results = << >>
  /\ mail = NoMail

\* ------------------------------------------------------------- entrypoint
\* str(value) in an f-string: a str as it is, another value by a text for its kind.
Format(v) == IF v.k = "str" THEN v.s ELSE <<v.k>>

\* VocalizeAgent.__init__: the name sentence is appended for a truthy user_name.
VocalizeAgentInit(prompt, name) ==
  IF Truthy(name) THEN prompt \o <<Block("user_name", Format(name))>> ELSE prompt

\* Lines 975-1082 run without suspension once wait_for_participant returns:
\* the classification, the metadata, the prompt, the VocalizeAgent.
\* An entrypoint that builds the prompt from the metadata for every call type.
PromptFromMetadataAlways(phone, metadata) == build_system_prompt(metadata)

\* if is_phone_call: system_prompt = PHONE_AGENT_INSTRUCTIONS, else the built one
SelectPrompt(phone, metadata) ==
  IF phone THEN [exc |-> "none", val |-> PHONE_AGENT_INSTRUCTIONS]
  ELSE build_system_prompt(metadata)

StartSequence(id, room, metadata) ==
  LET md == parse_participant_metadata(metadata)
      un == DictGet(md.val, "userName", JStr(Empty))
      phone == IsPhoneCall(id, room)
      prompt == SelectPrompt(phone, md.val)
      Failed(e, name) == [exc |-> e, phone |-> phone, md |-> md.val, name |-> name,
                          prompt |-> << >>, agent |-> << >>]
  IN IF un.exc # "none" THEN Failed(un.exc, JStr(Empty))
     ELSE IF prompt.exc # "none" THEN Failed(prompt.exc, un.val)
     ELSE [exc |-> "none", phone |-> phone, md |-> md.val, name |-> un.val,
           prompt |-> prompt.val, agent |-> VocalizeAgentInit(prompt.val, un.val)]

ParticipantJoins(ids, rooms, metadatas) ==
  /\ pc = "waiting"
  /\ \E id \in ids, room \in rooms, metadata \in metadatas :
       LET r == StartSequence(id, room, metadata)
       IN /\ identity' = id
          /\ room_name' = room
          /\ is_phone_call' = r.phone
          /\ metadata_dict' = r.md
          /\ user_name' = r.name
          /\ system_prompt' = r.prompt
          /\ instructions' = r.agent
          /\ pc' = IF r.exc = "none" THEN "starting" ELSE "crashed"
          /\ faults' = IF r.exc = "none" THEN faults ELSE faults \cup {"entrypoint"}
  /\ UNCHANGED <<greeting, messages, committed, latchVars, sinkVars, emailVars,
                 handshake, signalVars, langVars, toolVars>>

\* session.start returned: lines 1091-1103, up to the await of the greeting.
SessionStarted ==
  /\ pc = "starting"
  /\ pc' = "greeting"
  /\ greeting' = IF is_phone_call THEN "phone"
                 ELSE IF Truthy(user_name) THEN "named" ELSE "generic"
  /\ UNCHANGED <<startVars, faults, messages, committed, latchVars, sinkVars,
                 emailVars, handshake, signalVars, langVars, toolVars>>

\* generate_reply returned: lines 1104-1230 register the four handlers.
GreetingDone ==
  /\ pc = "greeting"
  /\ pc' = "registered"
  /\ received_email' = None
  /\ notion_saved' = FALSE
  /\ UNCHANGED <<startVars, greeting, faults, messages, committed, sessionEndLogs,
                 sinkPending, sinkVars, tasks, replies, dataLog, handshake, signalVars, langVars, toolVars>>

\* The four handlers are registered by the same run of lines 1110-1230.
HandlersRegistered == pc = "registered"
\* The session exists from session.start on; it runs until it emits 'close'.
SessionRunning == pc \in {"greeting", "registered"} /\ closeFired = 0
\* The room holds the participant from the join on.
InRoom == pc \in {"starting", "greeting", "registered"}

\* ------------------------------------------------------------ transcript
Entry(speaker, text) == [speaker |-> speaker, text |-> text]

\* ConversationTracker.add_user_message / add_agent_message
AddMessage(msgs, speaker, text) == Append(msgs, Entry(speaker, text))

\* What on_conversation_item_added does to the transcript for one item.
TrackItem(msgs, role, text) ==
  IF role = "user" /\ text # Empty THEN AddMessage(msgs, "User", text)
  ELSE IF role = "assistant" /\ text # Empty THEN AddMessage(msgs, "Agent", text)
  ELSE msgs

\* An item the recorder is meant to keep: a user or assistant item with text.
Recordable(role, text) == role \in {"user", "assistant"} /\ text # Empty

ItemRoles == {"user", "assistant", "system"}
ItemTexts == {Empty, <<"h", "i">>}

\* The session commits an item and emits conversation_item_added; the handler
\* sees it only if it is registered by then.
ConversationItemAddedWithin(budget) ==
  /\ SessionRunning
  /\ Len(committed) < budget
  /\ \E role \in ItemRoles, text \in ItemTexts :
       /\ committed' = IF Recordable(role, text)
                       THEN Append(committed, Entry(IF role = "user" THEN "User"
                                                    ELSE "Agent", text))
                       ELSE committed
       /\ messages' = IF HandlersRegistered THEN TrackItem(messages, role, text)
                      ELSE messages
  /\ UNCHANGED <<pc, startVars, greeting, faults, latchVars, sinkVars, emailVars,
                 handshake, signalVars, langVars, toolVars>>

ConversationItemAdded == ConversationItemAddedWithin(MaxItems)
ConversationItemAddedLate == ConversationItemAddedWithin(MaxLateItems)

\* ---------------------------------------------------------- termination
\* The blocks save_to_notion builds: six header blocks, then one paragraph per
\* transcript entry, in order.
HeaderBlocks == <<"heading:Session Details", "item:Started", "item:Duration",
                  "item:Type", "divider", "heading:Conversation">>
NotionBlocks(msgs) ==
  [i \in 1..(Len(HeaderBlocks) + Len(msgs)) |->
     IF i <= Len(HeaderBlocks) THEN [type |-> HeaderBlocks[i], speaker |-> "", text |-> Empty]
     ELSE [type |-> "paragraph", speaker |-> msgs[i - Len(HeaderBlocks)].speaker,
           text |-> msgs[i - Len(HeaderBlocks)].text]]

recordVars == <<sinkResults, sinkCalls>>

\* A save_conversation_to_notion that calls save_to_notion itself, with no thread.
SaveInline ==
  IF messages # << >>
  THEN /\ sinkCalls' = sinkCalls + 1
       /\ sinkResults' = Append(sinkResults, [result |-> "saved",
                                              blocks |-> NotionBlocks(messages)])
       /\ UNCHANGED sinkPending
  ELSE UNCHANGED <<sinkPending, recordVars>>

\* A save_conversation_to_notion that starts the thread for an empty transcript too.
StartSaveThreadAlways ==
  sinkPending' = sinkPending + 1 /\ UNCHANGED recordVars

\* if conversation_tracker.messages: threading.Thread(target=save_to_notion).start()
StartSaveThread ==
  IF messages # << >>
  THEN sinkPending' = sinkPending + 1 /\ UNCHANGED recordVars
  ELSE UNCHANGED <<sinkPending, recordVars>>

\* save_conversation_to_notion without the test of the latch.
save_without_latch_test ==
  /\ notion_saved' = TRUE
  /\ sessionEndLogs' = sessionEndLogs + 1
  /\ StartSaveThread

\* save_conversation_to_notion: the latch, the session-end log, the thread.
save_conversation_to_notion ==
  IF notion_saved
  THEN UNCHANGED <<latchVars, recordVars>>
  ELSE /\ notion_saved' = TRUE
       /\ sessionEndLogs' = sessionEndLogs + 1
       /\ StartSaveThread

\* The session emits 'close'; on_session_close runs if it is registered.
SessionClose ==
  /\ pc \in {"greeting", "registered"}
  /\ closeFired + discFired < MaxSignals
  /\ closeFired' = closeFired + 1
  /\ IF HandlersRegistered
     THEN closeSeen' = closeSeen + 1 /\ save_conversation_to_notion
     ELSE UNCHANGED <<closeSeen, latchVars, recordVars>>
  /\ UNCHANGED <<pc, startVars, greeting, faults, messages, committed, notionConfigured,
                 emailVars, handshake, discFired, discSeen, otherSeen, langVars,
                 toolVars>>

OtherIdentity == <<"o">>

\* An on_participant_disconnected that does not look at the identity.
on_any_participant_disconnected(disconnected) == save_conversation_to_notion

\* on_participant_disconnected
on_participant_disconnected(disconnected) ==
  IF disconnected = identity THEN save_conversation_to_notion
  ELSE UNCHANGED <<latchVars, recordVars>>

\* The room emits participant_disconnected for the original participant.
ParticipantDisconnected ==
  /\ InRoom
  /\ closeFired + discFired < MaxSignals
  /\ discFired' = discFired + 1
  /\ IF HandlersRegistered
     THEN discSeen' = discSeen + 1 /\ on_participant_disconnected(identity)
     ELSE UNCHANGED <<discSeen, latchVars, recordVars>>
  /\ UNCHANGED <<pc, startVars, greeting, faults, messages, committed, notionConfigured,
                 emailVars, handshake, closeFired, closeSeen, otherSeen, langVars,
                 toolVars>>

\* The room emits participant_disconnected for another participant.
OtherParticipantDisconnected ==
  /\ InRoom
  /\ identity # OtherIdentity
  /\ otherSeen < MaxOtherDisconnects
  /\ IF HandlersRegistered
     THEN otherSeen' = otherSeen + 1 /\ on_participant_disconnected(OtherIdentity)
     ELSE UNCHANGED <<otherSeen, latchVars, recordVars>>
  /\ UNCHANGED <<pc, startVars, greeting, faults, messages, committed, notionConfigured,
                 emailVars, handshake, closeFired, closeSeen, discFired, discSeen,
                 langVars, toolVars>>

\* A save_to_notion with no except clause.
SinkCatchesNothing(raised) == FALSE

\* save_to_notion's except clause: Exception, whatever pages.create raised.
SinkCatches(raised) == TRUE

\* A save_to_notion that reopens the latch when the sink failed, to allow a retry.
LatchReopenedOnFailure(raised) == IF raised THEN FALSE ELSE notion_saved

\* The latch after save_to_notion ran: nothing in it writes notion_saved.
LatchAfterSave(raised) == notion_saved

\* The persistence thread runs save_to_notion(conversation_tracker).
SaveToNotion ==
  /\ sinkPending > 0
  /\ sinkPending' = sinkPending - 1
  /\ IF ~notionConfigured
     THEN /\ sinkResults' = Append(sinkResults, [result |-> "skipped", blocks |-> << >>])
          /\ notion_saved' = LatchAfterSave(FALSE)
          /\ UNCHANGED <<sinkCalls, faults>>
     ELSE \E raised \in BOOLEAN :
            /\ sinkCalls' = sinkCalls + 1
            /\ notion_saved' = LatchAfterSave(raised)
            /\ sinkResults' =
                 Append(sinkResults,
                        [result |-> IF raised THEN "failed" ELSE "saved",
                         blocks |-> IF raised THEN << >> ELSE NotionBlocks(messages)])
            /\ faults' = IF raised /\ ~SinkCatches(raised)
                         THEN faults \cup {"save_to_notion"} ELSE faults
  /\ UNCHANGED <<pc, startVars, greeting, messages, committed, sessionEndLogs,
                 notionConfigured, emailVars, handshake, signalVars, langVars, toolVars>>

\* ---------------------------------------------------------- data channel
\* An inbound packet: its bytes are empty, not UTF-8, or UTF-8 text.
EmptyPacket == [enc |-> "empty", text |-> NotJson]
BadUtf8Packet == [enc |-> "bad_utf8", text |-> NotJson]
TextPacket(text) == [enc |-> "utf8", text |-> text]

EmailResponseType == JStr(<<"email_response">>)
OtherType == JStr(<<"tool_use">>)

\* An on_data_received that creates a task for the first email_response only.
SpawnsTaskOnce(email) == Truthy(email) /\ tasks = << >> /\ replies = << >>

\* An on_data_received that creates a task for an empty email too.
SpawnsTaskAlways(email) == TRUE

\* What on_data_received does with the stripped email: a task only for a
\* non-empty one.
SpawnsTask(email) == Truthy(email)

\* The try body of on_data_received: the exception it raises, or whether it
\* creates a handle_email_response task and with which email, and the line it
\* logs after "Message type".
DataBody(packet) ==
  LET NoTask(e, log) == [exc |-> e, spawn |-> FALSE, email |-> Empty, log |-> log]
  IN IF packet.enc = "empty" THEN NoTask("none", "could_not_extract")
     ELSE IF packet.enc = "bad_utf8" THEN NoTask("UnicodeDecodeError", "")
     ELSE LET message == JsonLoads(packet.text)
          IN IF message.exc # "none" THEN NoTask(message.exc, "")
             ELSE LET msg_type == DictGet(message.val, "type", JNull)
                  IN IF msg_type.exc # "none" THEN NoTask(msg_type.exc, "")
                     ELSE IF msg_type.val # EmailResponseType
                          THEN NoTask("none", "message_type")
                     ELSE LET raw == DictGet(message.val, "email", JStr(Empty))
                              email == StrStrip(raw.val)
                          IN IF email.exc # "none" THEN NoTask(email.exc, "")
                             ELSE IF SpawnsTask(email.val)
                                  THEN [exc |-> "none", spawn |-> TRUE,
                                        email |-> email.val.s, log |-> "email_extracted"]
                                  ELSE NoTask("none", "empty_email")

\* The except clauses of on_data_received: JSONDecodeError, then Exception.
Exceptions == {"JSONDecodeError", "UnicodeDecodeError", "AttributeError"}

\* An on_data_received with the JSONDecodeError clause only.
CatchesJsonErrorOnly(exc) == exc = "JSONDecodeError"

DataHandlerCatches(exc) == exc = "JSONDecodeError" \/ exc \in Exceptions

\* The handshake when an email_response is accepted: an awaited input is resolved.
HandshakeOnAccept == IF handshake = "AwaitingInput" THEN "Resolved" ELSE handshake

Members(type, email) == ("type" :> type) @@ ("email" :> email)
Packets ==
  {EmptyPacket, BadUtf8Packet, TextPacket(NotJson),
   TextPacket(Json(JList)), TextPacket(Json(JNull)),
   TextPacket(Json(JObj("email" :> JStr(<<"a">>)))),
   TextPacket(Json(JObj(Members(OtherType, JStr(<<"a">>))))),
   TextPacket(Json(JObj("type" :> EmailResponseType)))}
  \cup {TextPacket(Json(JObj(Members(EmailResponseType, e)))) :
          e \in {JNull, JNum, JStr(Empty), JStr(<<" ">>),
                 JStr(<<"a">>), JStr(<<" ", "b", " ">>)}}

\* The try body of on_data_received on each packet the room delivers.
DataBodyOf == [packet \in Packets |-> DataBody(packet)]

\* An on_data_received that stores the email itself before it creates the task.
SlotWrittenInline(email) == IF email # Empty THEN JStr(email) ELSE received_email

\* The slot after the body of on_data_received: it has no assignment to it.
SlotAfterCallback(email) == received_email

\* on_data_received(packet)
on_data_received(packet) ==
  LET r == DataBodyOf[packet]
  IN /\ dataLog' = IF r.exc = "none" THEN r.log
                   ELSE IF r.exc = "JSONDecodeError" THEN "non_json"
                   ELSE IF DataHandlerCatches(r.exc) THEN "error_handling" ELSE "raised"
     /\ tasks' = IF r.exc = "none" /\ r.spawn THEN Append(tasks, r.email) ELSE tasks
     /\ handshake' = IF r.exc = "none" /\ r.spawn THEN HandshakeOnAccept ELSE handshake
     /\ faults' = IF r.exc # "none" /\ ~DataHandlerCatches(r.exc)
                  THEN faults \cup {"on_data_received"} ELSE faults
     /\ received_email' = SlotAfterCallback(r.email)
     /\ UNCHANGED replies

\* The room emits data_received; the handler sees the packet only if it is
\* registered by then.
DataReceivedPacketWithin(packet, budget) ==
  /\ InRoom
  /\ Len(tasks) + Len(replies) < budget
  /\ IF HandlersRegistered THEN on_data_received(packet)
     ELSE UNCHANGED <<emailVars, handshake, faults>>
  /\ UNCHANGED <<pc, startVars, greeting, messages, committed, latchVars, sinkVars,
                 signalVars, langVars, toolVars>>

DataReceivedPacket(packet) == DataReceivedPacketWithin(packet, MaxData)

DataReceived == \E packet \in Packets : DataReceivedPacket(packet)

\* The same events, with room for a second email_response.
DataReceivedAgain ==
  \E packet \in Packets : DataReceivedPacketWithin(packet, MaxDuplicates)

\* A handle_email_response that does not write the slot.
SlotLeftStale(email) == received_email

\* received_email["value"] = email
SlotAfterDelivery(email) == JStr(email)

\* The event loop runs the oldest handle_email_response task up to its await:
\* the slot is written and generate_reply is called with the email.
handle_email_response ==
  /\ tasks # << >>
  /\ received_email' = SlotAfterDelivery(Head(tasks))
  /\ replies' = Append(replies, Head(tasks))
  /\ tasks' = Tail(tasks)
  /\ handshake' = IF handshake = "Resolved" THEN "Idle" ELSE handshake
  /\ UNCHANGED <<dataLog, pc, startVars, greeting, faults, messages, committed, latchVars,
                 sinkVars, signalVars, langVars, toolVars>>

\* ------------------------------------------------------------ popup tools
\* How a tool call goes: declined (confirm False), no job context, publish_data
\* raising, or the message published.
ToolOutcomes == {"not_confirmed", "no_job_context", "publish_raises", "published"}

\* VocalizeAgent.request_email_input
request_email_input(outcome) ==
  /\ SessionRunning
  /\ handshake' = IF outcome = "published" THEN "AwaitingInput" ELSE handshake
  /\ published' = IF outcome = "published" THEN ControlMessage("request_email_input")
                  ELSE published
  /\ UNCHANGED <<pc, startVars, greeting, faults, messages, committed, latchVars,
                 sinkVars, emailVars, signalVars, langVars, search_results, mail>>

RequestEmailInput == \E outcome \in ToolOutcomes : request_email_input(outcome)

\* A close_email_popup that also empties the slot.
close_popup_and_clear_slot(outcome) ==
  /\ SessionRunning
  /\ handshake' = IF outcome = "published" THEN "Idle" ELSE handshake
  /\ published' = IF outcome = "published" THEN ControlMessage("close_email_popup")
                  ELSE published
  /\ received_email' = IF outcome = "published" THEN None ELSE received_email
  /\ UNCHANGED <<pc, startVars, greeting, faults, messages, committed, latchVars,
                 sinkVars, tasks, replies, dataLog, signalVars, langVars,
                 search_results, mail>>

\* VocalizeAgent.close_email_popup
close_email_popup(outcome) ==
  /\ SessionRunning
  /\ handshake' = IF outcome = "published" THEN "Idle" ELSE handshake
  /\ published' = IF outcome = "published" THEN ControlMessage("close_email_popup")
                  ELSE published
  /\ UNCHANGED <<pc, startVars, greeting, faults, messages, committed, latchVars,
                 sinkVars, emailVars, signalVars, langVars, search_results, mail>>

CloseEmailPopup == \E outcome \in ToolOutcomes : close_email_popup(outcome)

\* ------------------------------------------------------------ search_web
MaxSources == 5   \* results[:5]

\* One result of the search provider: r.get("url", "") and r.get("title", "").
SearchResult(url, title) == [url |-> url, title |-> title]
\* The responses tried: up to MaxResults results, the i-th with no url or
\* with a url of its own (i letters).
UrlOfResult(i) == [j \in 1..i |-> "u"]
ResultLists ==
  UNION {{[i \in 1..n |-> SearchResult(IF i \in withUrl THEN UrlOfResult(i) ELSE Empty,
                                       <<"t">>)] : withUrl \in SUBSET (1..n)}
         : n \in 0..MaxResults}

\* The entries with a url, in order.
RECURSIVE WithUrl(_)
WithUrl(results) ==
  IF results = << >> THEN << >>
  ELSE (IF Head(results).url # Empty THEN <<Head(results)>> ELSE << >>)
       \o WithUrl(Tail(results))

\* A search_web that looks at every result.
SourcesOfAll(results) == WithUrl(results)

\* for r in results[:5]: if url: sources.append({"url": url, "title": title})
SourcesOf(results) ==
  WithUrl(SubSeq(results, 1, IF Len(results) < MaxSources THEN Len(results)
                             ELSE MaxSources))

\* How a call of search_web goes: no search client, the search raising, no job
\* context, publish_data raising, or both messages published.
SearchOutcomes ==
  {"no_client", "search_raises", "no_job_context", "publish_raises", "published"}

\* VocalizeAgent.search_web
search_web(outcome, results) ==
  /\ SessionRunning
  /\ search_results' = IF outcome = "published" THEN results ELSE search_results
  /\ published' =
       IF outcome = "search_raises" THEN ControlMessage("tool_use")
       ELSE IF outcome = "published"
            THEN IF SourcesOf(results) # << >>
                 THEN [type |-> "search_sources", sources |-> SourcesOf(results)]
                 ELSE ControlMessage("tool_use")
       ELSE published
  /\ UNCHANGED <<pc, startVars, greeting, faults, messages, committed, latchVars,
                 sinkVars, emailVars, handshake, signalVars, langVars, mail>>

SearchWeb == \E outcome \in SearchOutcomes, results \in ResultLists :
               search_web(outcome, results)

\* ------------------------------------------------- send_email_via_resend
AsciiLetters == {"a", "b", "c", "d", "e", "f"}
AsciiDigits == {"1", "2"}
LocalChars == AsciiLetters \cup AsciiDigits \cup {".", "_", "%", "+", "-"}   \* [a-zA-Z0-9._%+-]
DomainChars == AsciiLetters \cup AsciiDigits \cup {".", "-"}                 \* [a-zA-Z0-9.-]

AllIn(s, from, to, chars) == \A i \in from..to : s[i] \in chars

\* Where "$" may match: at the end, or before a newline that ends the string.
EndsOf(s) == {Len(s)} \cup (IF s # Empty /\ s[Len(s)] = "\n" THEN {Len(s) - 1} ELSE {})

\* re.match(r'^[a-zA-Z0-9._%+-]+@[a-zA-Z0-9.-]+\.[a-zA-Z]{2,}$', to_email)
MatchesEmailPattern(to_email) ==
  \E end \in EndsOf(to_email) :
    \E at \in 2..end : \E dot \in (at + 2)..(end - 2) :
      /\ AllIn(to_email, 1, at - 1, LocalChars)
      /\ to_email[at] = "@"
      /\ AllIn(to_email, at + 1, dot - 1, DomainChars)
      /\ to_email[dot] = "."
      /\ AllIn(to_email, dot + 1, end, AsciiLetters)

\* A send_email_via_resend that checks its configuration only.
RejectsUnconfiguredOnly(configured, to_email) ==
  IF ~configured THEN "not_configured" ELSE "none"

\* if not RESEND_API_KEY: return ...; if not re.match(...): return ...
Rejects(configured, to_email) ==
  IF ~configured THEN "not_configured"
  ELSE IF ~MatchesEmailPattern(to_email) THEN "invalid_address"
  ELSE "none"

\* How the body of the try goes: build_html_email raises, resend.Emails.send
\* raises, it returns something without .get, or it returns a dict.
SendBodies == {"build_raises", "provider_raises", "result_malformed", "provider_returns"}

\* The recipient addresses tried.
Recipients ==
  { <<"a", "@", "b", ".", "c", "d">>,
    <<"a", "+", "1", "@", "b", "-", "c", ".", "d", ".", "e", "f">>,
    <<"a", "@", "b", ".", "c">>,
    <<"a", "@", "b", ".", "c", "1">>,
    <<"a", "@", "b">>,
    <<"a", "b">>,
    Empty,
    <<"@", "b", ".", "c", "d">>,
    <<"a", "@", ".", "c", "d">>,
    <<"a", " ", "@", "b", ".", "c", "d">>,
    <<"a", "@", "b", "@", "c", ".", "d", "e">>,
    <<"a", "@", "b", "+", "c", ".", "d", "e">>,
    <<"a", "@", "b", ".", "c", "d", "\n">>,
    <<"a", "@", "b", ".", "c", "d", " ">> }

\* send_email_via_resend: the call, what it reached and what it returned.
send_email_via_resend(configured, to_email, body) ==
  LET rejected == Rejects(configured, to_email)
      provider == IF rejected # "none" \/ body = "build_raises" THEN "not_reached"
                  ELSE IF body = "provider_raises" THEN "raised"
                  ELSE "returned"
  IN  [configured |-> configured, to |-> to_email, body |-> body,
       provider |-> provider,
       exc |-> "none",
       success |-> rejected = "none" /\ body = "provider_returns",
       message |-> IF rejected # "none" THEN rejected
                   ELSE IF body = "provider_returns" THEN "sent"
                   ELSE "failed_to_send"]

SendEmail ==
  \E configured \in BOOLEAN, to_email \in Recipients, body \in SendBodies :
    /\ SessionRunning
    /\ mail' = send_email_via_resend(configured, to_email, body)
    /\ UNCHANGED <<pc, startVars, greeting, faults, messages, committed, latchVars,
                   sinkVars, emailVars, handshake, signalVars, langVars, published,
                   search_results>>

\* ------------------------------------------------------- language routing
\* A user_input_transcribed event: whether it is final, whether it has a
\* language attribute, and the attribute's value (None, or a text).
TranscribedEvent(final, has, language) ==
  [is_final |-> final, has_language |-> has, language |-> language]
Hindi == JStr(<<"h", "i">>)
French == JStr(<<"f", "r">>)
TranscribedEvents ==
  {TranscribedEvent(final, FALSE, JNull) : final \in BOOLEAN}
  \cup {TranscribedEvent(final, TRUE, language) :
          final \in BOOLEAN, language \in {JNull, JStr(Empty), Hindi, French}}

\* An on_user_transcribed that never forwards the language.
SetsLanguageNever(event) == FALSE

\* An on_user_transcribed without the test of event.language.
SetsLanguageUnchecked(event) == event.has_language

\* if hasattr(event, 'language') and event.language
SetsLanguage(event) == event.has_language /\ Truthy(event.language)

\* The synthesis backends entrypoint hands to HybridTTS, and the router's
\* table from language tag to backend with its default.
Backends == {"english_tts", "hindi_tts"}
DefaultBackend == "english_tts"
BackendTable == (<<"h", "i">> :> "hindi_tts") @@ (<<"e", "n">> :> "english_tts")
BackendFor(tag) ==
  IF tag.k = "str" /\ tag.s \in DOMAIN BackendTable THEN BackendTable[tag.s]
  ELSE DefaultBackend

\* hybrid_tts.set_language(tag): the stored tag only.
set_language(tag) == active_language' = tag /\ UNCHANGED synth

\* The session emits user_input_transcribed; on_user_transcribed is registered
\* before session.start.
on_user_transcribed(event) ==
  /\ InRoom /\ closeFired = 0
  /\ IF SetsLanguage(event) THEN set_language(event.language)
     ELSE UNCHANGED <<active_language, synth>>
  /\ reported' = IF event.has_language /\ Truthy(event.language)
                 THEN [any |-> event.language,
                       final |-> IF event.is_final THEN event.language
                                 ELSE reported.final]
                 ELSE reported
  /\ UNCHANGED <<pc, startVars, greeting, faults, messages, committed, latchVars,
                 sinkVars, emailVars, handshake, signalVars, toolVars>>

UserTranscribed == \E event \in TranscribedEvents : on_user_transcribed(event)

\* The session asks hybrid_tts to synthesize: the backend of the stored tag, or
\* the default one.
SynthesizeStart ==
  /\ SessionRunning
  /\ synth = NoCall
  /\ synth' = [started |-> BackendFor(active_language),
               current |-> BackendFor(active_language)]
  /\ UNCHANGED <<pc, startVars, greeting, faults, messages, committed, latchVars,
                 sinkVars, emailVars, handshake, signalVars, active_language, reported, toolVars>>

\* The synthesis call in flight ends.
SynthesizeEnd ==
  /\ synth # NoCall
  /\ synth' = NoCall
  /\ UNCHANGED <<pc, startVars, greeting, faults, messages, committed, latchVars,
                 sinkVars, emailVars, handshake, signalVars, active_language, reported, toolVars>>

\* ---------------------------------------------------------- specification
SessionIdentities == {<<"u">>}
SessionRooms == {<<"r">>}
SessionMetadata ==
  {NoMetadata, Metadata(NotJson), Metadata(Json(JList)),
   Metadata(Json(JObj("persona" :> JNull)))}

Next ==
  \/ ParticipantJoins(SessionIdentities, SessionRooms, SessionMetadata)
  \/ SessionStarted
  \/ GreetingDone
  \/ ConversationItemAdded
  \/ DataReceived
  \/ handle_email_response
  \/ RequestEmailInput
  \/ CloseEmailPopup
  \/ SessionClose
  \/ ParticipantDisconnected
  \/ SaveToNotion

Spec == Init /\ [][Next]_vars

\* The start sequence alone, over identities and room names around each of the
\* five tests of is_phone_call and metadata around each branch of
\* build_system_prompt.
StartIdentities ==
  {<<"u">>, <<"s", "i", "p", "_", "1">>, <<"s", "i", "p", ":", "1">>, <<"+", "1">>,
   <<"s", "i", "p">>, <<"u", "+">>, <<"s", "i", "p", "-", "1">>, <<"u", "_", "+">>,
   <<"S", "I", "P", "_">>}
StartRooms ==
  {<<"r">>, <<"s", "i", "p", "-", "1">>, <<"r", "_", "+", "1">>, <<"_", "+">>,
   <<"s", "i", "p", "_", "1">>, <<"+", "1">>, <<"r", "+", "_">>, <<"s", "i", "p">>}
StartMetadata ==
  {NoMetadata, Metadata(NotJson), Metadata(Json(JList)), Metadata(Json(JObj(NoMembers)))}
  \cup {Metadata(Json(JObj(members))) :
          members \in
            {"persona" :> JStr(<<"X">>),
             "persona" :> JStr(<<" ", "X", " ">>),
             "persona" :> JStr(<<" ">>),
             "persona" :> JNull,
             "businessDetails" :> JStr(<<"B">>),
             "businessDetails" :> JStr(<<" ">>),
             "userName" :> JStr(<<"N">>),
             ("persona" :> JStr(<<"X">>)) @@ ("businessDetails" :> JStr(<<" ", "B">>)),
             ("persona" :> JStr(Empty)) @@ ("businessDetails" :> JStr(<<"B">>)),
             ("persona" :> JStr(<<" ">>)) @@ ("businessDetails" :> JStr(Empty)),
             ("persona" :> JStr(<<"X">>)) @@ ("userName" :> JStr(<<"N">>)),
             ("persona" :> JStr(<<"X">>)) @@ ("userName" :> JNum),
             ("persona" :> JStr(<<"X">>)) @@ ("businessDetails" :> JNull)}}

NextStart ==
  \/ ParticipantJoins(StartIdentities, StartRooms, StartMetadata)
  \/ SessionStarted
  \/ GreetingDone

SpecStart == Init /\ [][NextStart]_vars

\* One session with its transcription events and synthesis calls.
NextLanguage ==
  \/ ParticipantJoins(SessionIdentities, SessionRooms, SessionMetadata)
  \/ SessionStarted
  \/ GreetingDone
  \/ UserTranscribed
  \/ SynthesizeStart
  \/ SynthesizeEnd
  \/ ConversationItemAdded
  \/ RequestEmailInput
  \/ CloseEmailPopup
  \/ SessionClose

SpecLanguage == Init /\ [][NextLanguage]_vars

\* One session with its popup tools and its data channel, where a second
\* email_response can follow the first.
NextEmail ==
  \/ ParticipantJoins(SessionIdentities, SessionRooms, SessionMetadata)
  \/ SessionStarted
  \/ GreetingDone
  \/ DataReceivedAgain
  \/ handle_email_response
  \/ RequestEmailInput
  \/ CloseEmailPopup

SpecEmail == Init /\ [][NextEmail]_vars

\* One session with its transcript and its end.
NextRecord ==
  \/ ParticipantJoins(SessionIdentities, SessionRooms, SessionMetadata)
  \/ SessionStarted
  \/ GreetingDone
  \/ ConversationItemAddedLate
  \/ SessionClose
  \/ ParticipantDisconnected
  \/ OtherParticipantDisconnected
  \/ SaveToNotion

SpecRecord == Init /\ [][NextRecord]_vars

\* One session with the tool that reaches the search provider.
NextTools ==
  \/ ParticipantJoins(SessionIdentities, SessionRooms, SessionMetadata)
  \/ SessionStarted
  \/ GreetingDone
  \/ SearchWeb

SpecTools == Init /\ [][NextTools]_vars

\* One session with the tool that reaches the mail provider.
NextMail ==
  \/ ParticipantJoins(SessionIdentities, SessionRooms, SessionMetadata)
  \/ SessionStarted
  \/ GreetingDone
  \/ SendEmail

SpecMail == Init /\ [][NextMail]_vars

\* ------------------------------------------------------------- properties
\* Persistence threads started so far.
Handoffs == sinkPending + Len(sinkResults)

\* A step in which on_session_close or on_participant_disconnected ran for the
\* session's own participant.
SignalDelivered == closeSeen' + discSeen' > closeSeen + discSeen

\* C1 as stated: after every termination signal delivered to a registered
\* handler, the latch is closed, log_session_end has run exactly once and the
\* transcript has been handed to the record sink exactly once.
C1_HandoffExactlyOnce ==
  [][SignalDelivered =>
       (notion_saved' /\ sessionEndLogs' = 1 /\ Handoffs' = 1)]_vars

\* C1 amended: the first delivered signal closes the latch, logs the session end
\* once and hands the transcript off once if it holds an entry (not at all if it
\* is empty); every later signal changes nothing.
C1_BookkeepingOnce ==
  [][SignalDelivered =>
       /\ notion_saved' /\ sessionEndLogs' = 1
       /\ ~notion_saved => Handoffs' = (IF messages # << >> THEN 1 ELSE 0)
       /\ notion_saved => UNCHANGED <<latchVars, sinkVars, messages, faults>>]_vars

C1_Witness ==
  closeSeen >= 1 /\ discSeen >= 1 /\ notion_saved /\ sessionEndLogs = 1 /\ Handoffs = 1

\* C2: once the start sequence is over, every termination signal that has fired
\* since the participant joined has been accounted for: the session-end
\* bookkeeping has run, exactly once.
C2_BookkeepingGuaranteed ==
  (pc = "registered" /\ closeFired + discFired > 0) =>
    (notion_saved /\ sessionEndLogs = 1)

\* C3: the latch is false until the handlers exist, false when they are
\* registered, and no step of the session takes it from true back to false.
C3_LatchMonotonic ==
  [][/\ notion_saved => notion_saved'
     /\ ~HandlersRegistered => ~notion_saved
     /\ (pc = "greeting" /\ pc' = "registered") => ~notion_saved']_vars

C3_Witness ==
  /\ notion_saved /\ closeSeen + discSeen >= 2
  /\ sinkResults # << >> /\ sinkResults[1].result = "failed"
  /\ dataLog # "none" /\ messages # << >>

\* C4: a record sink that failed or is not configured leaves no exception
\* escaped from save_to_notion, the entrypoint alive, the latch closed, one
\* thread only and at most one call of pages.create.
C4_SinkFailureContained ==
  (sinkResults # << >> /\ sinkResults[1].result \in {"failed", "skipped"}) =>
    /\ "save_to_notion" \notin faults
    /\ pc = "registered"
    /\ notion_saved
    /\ Len(sinkResults) = 1 /\ sinkPending = 0
    /\ sinkCalls = (IF sinkResults[1].result = "failed" THEN 1 ELSE 0)

C4_Witness ==
  /\ sinkResults # << >> /\ sinkResults[1].result = "failed"
  /\ closeSeen + discSeen = 2

\* What a packet is, read off its wire form.
IsObject(p) == p.enc = "utf8" /\ p.text.syn = "valid" /\ p.text.val.k = "obj"
IsEmailResponse(p) ==
  IsObject(p) /\ "type" \in DOMAIN p.text.val.f /\ p.text.val.f["type"] = EmailResponseType
HasEmailString(p) ==
  IsEmailResponse(p) /\ "email" \in DOMAIN p.text.val.f /\ p.text.val.f["email"].k = "str"
EmailOf(p) == Strip(p.text.val.f["email"].s)
HasNoEmail(p) ==
  IsEmailResponse(p)
  /\ ("email" \notin DOMAIN p.text.val.f \/ (HasEmailString(p) /\ EmailOf(p) = Empty))

\* The packets of each kind among those the model receives.
EmailPackets == {p \in Packets : HasEmailString(p) /\ EmailOf(p) # Empty}
ResponsePackets == {p \in Packets : IsEmailResponse(p)}
NoEmailPackets == {p \in Packets : HasNoEmail(p)}
MalformedPackets == {p \in Packets : ~HasEmailString(p)}

\* C5: an email_response with a non-empty email E received while AwaitingInput
\* resolves the handshake and creates one delivery task for E; the task writes
\* E to the slot, calls generate_reply with E once and returns the handshake to
\* Idle; no delivery is lost or made twice.
C5_RoundTrip ==
  [][/\ (HandlersRegistered /\ handshake = "AwaitingInput") =>
          \A p \in EmailPackets :
            DataReceivedPacket(p)
            => /\ handshake' = "Resolved"
               /\ tasks' = Append(tasks, EmailOf(p))
               /\ UNCHANGED <<received_email, replies>>
     /\ Len(tasks') < Len(tasks) =>
          /\ tasks' = Tail(tasks)
          /\ replies' = Append(replies, Head(tasks))
          /\ received_email' = JStr(Head(tasks))
          /\ handshake = "Resolved" => handshake' = "Idle"
     /\ replies' # replies => Len(tasks') < Len(tasks)]_vars

C5_Witness ==
  /\ handshake = "Resolved" /\ tasks = <<<<"a">>>> /\ replies = << >>
  /\ dataLog = "email_extracted"

\* C6: an email_response handled while the handshake is Idle delivers nothing:
\* no task, slot and handshake unchanged, no exception.
C6_IdleResponseIsNoOp ==
  [][(HandlersRegistered /\ handshake = "Idle") =>
       \A p \in ResponsePackets :
         DataReceivedPacket(p)
         => UNCHANGED <<tasks, received_email, replies, handshake, faults>>]_vars

\* C7: an email_response whose email is absent, empty or blank creates no task
\* and leaves the slot, the handshake and the rest of the session unchanged,
\* whatever the handshake state.
C7_EmptyEmailIsNoOp ==
  [][HandlersRegistered =>
       \A p \in NoEmailPackets :
         DataReceivedPacket(p)
         => UNCHANGED <<tasks, received_email, replies, handshake, faults, messages,
                        latchVars>>]_vars

C7_Witness ==
  /\ dataLog = "empty_email" /\ handshake = "AwaitingInput"
  /\ tasks = << >> /\ replies = << >> /\ received_email = None

\* C8: a packet that is not an email_response with a string email never makes
\* on_data_received raise, creates no task and leaves the slot, the handshake,
\* the transcript and the latch unchanged.
C8_MalformedPacketDropped ==
  [][HandlersRegistered =>
       \A p \in MalformedPackets :
         DataReceivedPacket(p)
         => /\ faults' = faults
            /\ dataLog' # "raised"
            /\ UNCHANGED <<tasks, received_email, replies, handshake, messages,
                           notion_saved>>]_vars

C8_Witness ==
  /\ dataLog = "error_handling" /\ faults = {} /\ tasks = << >> /\ replies = << >>
  /\ handshake = "AwaitingInput"

\* C9: whatever the participant metadata (here absent, not JSON, a JSON list,
\* or an object with a null persona), the start sequence does not raise and
\* yields the default configuration.
C9_MetadataNeverFaults ==
  pc # "waiting" =>
    /\ pc # "crashed" /\ "entrypoint" \notin faults
    /\ user_name = JStr(Empty)
    /\ system_prompt = DEFAULT_SYSTEM_PROMPT

\* C10: the transcript holds every recordable item the session has committed
\* since it started, the initial greeting included.
C10_RecorderSeesEveryItem == messages = committed

\* ------------------------------------------------- properties of the start
At(s, i, c) == Len(s) >= i /\ s[i] = c
Joined == pc # "waiting"

\* C11: the call is classified Phone if and only if the identity starts with
\* "sip_", "sip:" or "+", or the room name starts with "sip-" or contains "_+";
\* the result is a function of the identity and the room name alone.
C11_ClassificationIsOrOfFive ==
  Joined =>
    (is_phone_call <=>
       \/ At(identity, 1, "s") /\ At(identity, 2, "i") /\ At(identity, 3, "p")
          /\ At(identity, 4, "_")
       \/ At(identity, 1, "s") /\ At(identity, 2, "i") /\ At(identity, 3, "p")
          /\ At(identity, 4, ":")
       \/ At(identity, 1, "+")
       \/ At(room_name, 1, "s") /\ At(room_name, 2, "i") /\ At(room_name, 3, "p")
          /\ At(room_name, 4, "-")
       \/ \E i \in 1..Len(room_name) : At(room_name, i, "_") /\ At(room_name, i + 1, "+"))

\* A session classified Phone by its room name alone, whose metadata names a
\* persona.
C11_Witness ==
  /\ pc = "registered" /\ is_phone_call
  /\ identity = <<"u", "_", "+">> /\ room_name = <<"r", "_", "+", "1">>
  /\ DOMAIN metadata_dict.f = {"persona"}

\* A text of whitespace only (the empty text included).
Blank(t) == \A i \in 1..Len(t) : t[i] = " "
HasKey(key) == metadata_dict.k = "obj" /\ key \in DOMAIN metadata_dict.f
\* The metadata is an object and the key, if there, holds a string.
StringIfThere(key) ==
  metadata_dict.k = "obj" /\ (HasKey(key) => metadata_dict.f[key].k = "str")
\* The key is absent, or holds a string that is empty after trimming.
AbsentOrBlank(key) ==
  StringIfThere(key) /\ (HasKey(key) => Blank(metadata_dict.f[key].s))
\* The key holds a string that is not empty after trimming.
Present(key) ==
  HasKey(key) /\ StringIfThere(key) /\ ~Blank(metadata_dict.f[key].s)
Trimmed(key) == Strip(metadata_dict.f[key].s)

\* C12: for a web session the prompt is the default text, with nothing
\* appended, exactly when persona and businessDetails are both absent or empty
\* after trimming; in particular for the empty metadata.
C12_DefaultExactlyWhenBothEmpty ==
  (Joined /\ ~is_phone_call) =>
    /\ (system_prompt = DEFAULT_SYSTEM_PROMPT)
         <=> (AbsentOrBlank("persona") /\ AbsentOrBlank("businessDetails"))
    /\ metadata_dict = JObj(NoMembers) => system_prompt = DEFAULT_SYSTEM_PROMPT

\* A whitespace-only persona with an empty businessDetails gives the default.
C12_Witness ==
  /\ pc = "starting" /\ ~is_phone_call
  /\ metadata_dict = JObj(("persona" :> JStr(<<" ">>)) @@ ("businessDetails" :> JStr(Empty)))
  /\ system_prompt = DEFAULT_SYSTEM_PROMPT

\* C13: when persona or businessDetails is present the prompt is, in this
\* order, the trimmed persona (else the default text), the context block with
\* the trimmed businessDetails if and only if they are present, the voice
\* block, and the email addendum as the last block.
C13_CustomPromptOrder ==
  (Joined /\ ~is_phone_call /\ StringIfThere("persona")
     /\ StringIfThere("businessDetails")
     /\ (Present("persona") \/ Present("businessDetails"))) =>
    LET n == Len(system_prompt)
    IN /\ pc # "crashed"
       /\ n = IF Present("businessDetails") THEN 4 ELSE 3
       /\ system_prompt[1] = IF Present("persona")
                              THEN [tag |-> "persona", text |-> Trimmed("persona")]
                              ELSE DEFAULT_SYSTEM_PROMPT[1]
       /\ Present("businessDetails")
            => system_prompt[2] = [tag |-> "context", text |-> Trimmed("businessDetails")]
       /\ system_prompt[n - 1].tag = "voice"
       /\ system_prompt[n].tag = "email_capability"

\* A persona with surrounding whitespace and businessDetails: four blocks.
C13_Witness ==
  /\ pc = "starting" /\ ~is_phone_call
  /\ metadata_dict = JObj(("persona" :> JStr(<<"X">>))
                            @@ ("businessDetails" :> JStr(<<" ", "B">>)))
  /\ Len(system_prompt) = 4 /\ system_prompt[1].text = <<"X">>
  /\ system_prompt[2].text = <<"B">> /\ system_prompt[4] = EmailAddendum

\* The VocalizeAgent of the session has been built.
AgentBuilt == pc \in {"starting", "greeting", "registered"}

\* C14 as stated: the instruction text the agent of a phone session gets is
\* the fixed phone text.
C14_PhoneTextOnly ==
  (is_phone_call /\ AgentBuilt) => instructions = PHONE_AGENT_INSTRUCTIONS

\* C14, amended: for a phone session the prompt handed to VocalizeAgent is the
\* fixed phone text whatever persona and businessDetails the metadata carry,
\* and the agent's instructions are that text, followed by the name sentence
\* if and only if the metadata carry a non-empty userName.
C14_PhonePromptFixed ==
  (is_phone_call /\ AgentBuilt) =>
    /\ system_prompt = PHONE_AGENT_INSTRUCTIONS
    /\ instructions[1] = PHONE_AGENT_INSTRUCTIONS[1]
    /\ Len(instructions) = IF Truthy(user_name) THEN 2 ELSE 1
    /\ Truthy(user_name) => instructions[2].tag = "user_name"
    /\ Truthy(user_name) <=> (HasKey("userName") /\ Truthy(metadata_dict.f["userName"]))

\* A phone session whose metadata carry a persona and a user name.
C14_Witness ==
  /\ is_phone_call /\ pc = "registered"
  /\ HasKey("persona") /\ HasKey("userName")
  /\ instructions = PHONE_AGENT_INSTRUCTIONS \o <<[tag |-> "user_name", text |-> <<"N">>]>>

\* ------------------------------------------- properties of language routing
\* The backend the router's table gives a reported language.
BackendOfReported ==
  IF reported.any = Hindi THEN "hindi_tts" ELSE "english_tts"

\* C15: a synthesis call in flight keeps the backend it started with whatever
\* language is set meanwhile, and a call that starts uses the backend of the
\* language set last, the default one when that language is not in the table.
C15_ChangeTakesEffectOnNextCall ==
  [][/\ (synth # NoCall /\ synth' # NoCall) => synth' = synth
     /\ synth # NoCall => synth.current = synth.started
     /\ (synth = NoCall /\ synth' # NoCall) => synth'.started = BackendOfReported]_vars

\* Hindi was set while a call that started on the English backend is in flight.
C15_Witness ==
  /\ synth = [started |-> "english_tts", current |-> "english_tts"]
  /\ active_language = Hindi /\ reported.any = Hindi

\* C16: as long as no transcription event has carried a non-empty language,
\* the tag is unset and every synthesis call runs on the default backend.
C16_NoLanguageMeansDefaultOnly ==
  reported.any = None =>
    /\ active_language = None
    /\ synth # NoCall => synth.started = DefaultBackend /\ synth.current = DefaultBackend

\* A synthesis call in flight in a registered session with no language reported.
C16_Witness ==
  /\ pc = "registered" /\ reported.any = None /\ active_language = None
  /\ synth = [started |-> "english_tts", current |-> "english_tts"]

\* C17: the tag is the language of the last final transcription event that
\* carried one: nothing else changes it.
C17_OnlyFinalEventsSetLanguage == active_language = reported.final

\* ---------------------------------------------- properties of the hand-off
\* C18: the step in which on_session_close or on_participant_disconnected runs
\* builds no record and does not call the record sink: at most it starts a
\* persistence thread, and it returns with that thread still pending.
C18_HandlerDoesNotWaitForSink ==
  [][SignalDelivered =>
       /\ sinkCalls' = sinkCalls /\ sinkResults' = sinkResults
       /\ sinkPending' \in {sinkPending, sinkPending + 1}
       /\ (~notion_saved /\ messages # << >>) => sinkPending' = sinkPending + 1]_vars

\* Both handlers have returned and the persistence thread has not run yet.
C18_Witness ==
  /\ closeSeen = 1 /\ discSeen = 1 /\ notion_saved
  /\ sinkPending = 1 /\ sinkCalls = 0 /\ sinkResults = << >>

\* ------------------------------------------- properties of the transcript
\* The paragraphs of a record, as transcript entries.
Paragraphs(blocks) ==
  [i \in 1..(Len(blocks) - Len(HeaderBlocks)) |->
     [speaker |-> blocks[i + Len(HeaderBlocks)].speaker,
      text |-> blocks[i + Len(HeaderBlocks)].text]]

\* C19: every committed user or assistant item with text appends exactly one
\* entry at the end of the transcript, no step removes, reorders or rewrites an
\* entry, and a record handed to the sink lists the entries in commit order.
C19_AppendOnlyInCommitOrder ==
  [][/\ committed' # committed
          => messages' = Append(messages, committed'[Len(committed')])
     /\ committed' = committed => messages' = messages
     /\ (Len(sinkResults') > Len(sinkResults)
           /\ sinkResults'[Len(sinkResults')].result = "saved")
          => Paragraphs(sinkResults'[Len(sinkResults')].blocks) = messages]_vars

\* --------------------------------------------- properties of the callback
\* C20: a step that creates a handle_email_response task (the callback) writes
\* neither the slot nor anything else of the session and returns with the task
\* still to run; the slot is written, and generate_reply called, only by a step
\* that runs the oldest task.
C20_CallbackOnlySpawns ==
  [][/\ Len(tasks') > Len(tasks) =>
          /\ SubSeq(tasks', 1, Len(tasks)) = tasks /\ Len(tasks') = Len(tasks) + 1
          /\ UNCHANGED <<received_email, replies, messages, latchVars, recordVars,
                         pc, faults>>
     /\ (received_email' # received_email \/ replies' # replies) =>
          /\ tasks # << >> /\ tasks' = Tail(tasks)
          /\ received_email' = JStr(Head(tasks))]_vars

\* The callback has returned for an email_response that arrived with no request
\* outstanding: its task is pending and the slot is still empty.
C20_Witness ==
  /\ handshake = "Idle" /\ dataLog = "email_extracted"
  /\ tasks = <<<<"a">>>> /\ received_email = None /\ replies = << >>

\* ------------------------------------------ properties of the email flow
\* C21: email_response messages are not deduplicated: each one with a
\* non-empty email creates its own task even while another is pending, each
\* task makes its own generate_reply call, and each task overwrites the slot,
\* so the slot holds the email of the task that ran last.
C21_DuplicatesBothDeliver ==
  [][/\ HandlersRegistered =>
          \A p \in EmailPackets :
            DataReceivedPacketWithin(p, MaxDuplicates)
            => tasks' = Append(tasks, EmailOf(p))
     /\ Len(tasks') < Len(tasks) =>
          /\ tasks' = Tail(tasks)
          /\ replies' = Append(replies, Head(tasks))
          /\ received_email' = JStr(Head(tasks))
     /\ replies # << >> => received_email = JStr(replies[Len(replies)])]_vars

\* Two messages with different emails were received: both were delivered and
\* the slot holds the email of the second.
C21_Witness ==
  /\ replies = <<<<"a">>, <<"b">>>> /\ tasks = << >>
  /\ received_email = JStr(<<"b">>)

C23_NoTimeout ==
  [][(handshake = "AwaitingInput" /\ handshake' # "AwaitingInput") =>
       \/ close_email_popup("published")
       \/ \E p \in EmailPackets : DataReceivedPacketWithin(p, MaxDuplicates)]_vars

\* The request is out, an email_response with an empty email has been dropped
\* and the handshake is still AwaitingInput.
C23_Witness ==
  /\ handshake = "AwaitingInput" /\ published.type = "request_email_input"
  /\ dataLog = "empty_email" /\ tasks = << >> /\ replies = << >>

\* ------------------------------------------------ properties of the tools
\* a is b with some entries left out, the others in the same order.
RECURSIVE IsSubsequence(_, _)
IsSubsequence(a, b) ==
  IF a = << >> THEN TRUE
  ELSE IF b = << >> THEN FALSE
  ELSE IF Head(a) = Head(b) THEN IsSubsequence(Tail(a), Tail(b))
  ELSE IsSubsequence(a, Tail(b))

\* C24: a search_sources message carries between one and five sources, each
\* with a non-empty url, and they are results of the provider in the
\* provider's order.
C24_AtMostFiveSourcesInOrder ==
  published.type = "search_sources" =>
    /\ Len(published.sources) \in 1..5
    /\ \A i \in 1..Len(published.sources) : published.sources[i].url # Empty
    /\ IsSubsequence(published.sources, search_results)

\* Six results with a url came back and five of them were sent.
C24_Witness ==
  /\ published.type = "search_sources"
  /\ Len(search_results) = 6 /\ Len(published.sources) = 5
  /\ \A i \in 1..6 : search_results[i].url # Empty
  /\ search_results[1].url # search_results[2].url

\* The addresses of Recipients that a reader of the pattern accepts.
WellFormed ==
  { <<"a", "@", "b", ".", "c", "d">>,
    <<"a", "+", "1", "@", "b", "-", "c", ".", "d", ".", "e", "f">>,
    <<"a", "@", "b", ".", "c", "d", "\n">> }

\* C25: send_email_via_resend never raises; without credentials or with an
\* address that does not match the pattern it returns success false and the
\* provider is not reached; when the provider raises it returns success
\* false; success true is returned only after the provider returned.
C25_SendNeverRaises ==
  /\ mail.exc = "none"
  /\ mail # NoMail =>
       /\ (~mail.configured \/ mail.to \notin WellFormed) =>
            ~mail.success /\ mail.provider = "not_reached" /\ mail.message # "none"
       /\ mail.provider = "raised" => ~mail.success /\ mail.message # "none"
       /\ mail.success => mail.provider = "returned"

\* A configured call with a top-level domain of one letter: rejected before
\* the provider.
C25_Witness ==
  /\ mail.configured /\ mail.to = <<"a", "@", "b", ".", "c">>
  /\ mail.body = "provider_returns"
  /\ ~mail.success /\ mail.provider = "not_reached" /\ mail.message = "invalid_address"

\* ------------------------------------------- properties of the session end
\* A step that closes the latch.
LatchCloses == ~notion_saved /\ notion_saved'

\* C26: a persistence thread is started exactly on the step in which a
\* termination signal closes the latch while the transcript holds an entry.
\* The first delivered signal always closes the latch and logs the session
\* end; with an empty transcript it starts no thread, and no other step, a
\* later signal included, starts one or logs again.
C26_HandoffIffClosedNonEmpty ==
  [][/\ (SignalDelivered /\ ~notion_saved) => LatchCloses
     /\ LatchCloses =>
          /\ SignalDelivered
          /\ sessionEndLogs' = sessionEndLogs + 1
          /\ Handoffs' = Handoffs + (IF messages = << >> THEN 0 ELSE 1)
     /\ ~LatchCloses => (Handoffs' = Handoffs /\ sessionEndLogs' = sessionEndLogs)]_vars

\* Both signals were delivered, the latch is closed, the end was logged once,
\* and no thread was ever started although the transcript holds an entry now.
C26_Witness ==
  /\ closeSeen = 1 /\ discSeen = 1 /\ notion_saved /\ sessionEndLogs = 1
  /\ Handoffs = 0 /\ messages # << >>

\* C27: while the persistence thread has not finished with the transcript, no
\* entry is appended to it, so the record holds the transcript as it was when
\* the latch closed.
C27_TranscriptFrozenWhileSaving ==
  [][sinkPending > 0 => messages' = messages]_vars

\* A step in which on_participant_disconnected ran for another participant.
OtherDisconnectDelivered == otherSeen' > otherSeen

\* C28: a disconnect of a participant other than the one the session was
\* started for leaves the latch as it is, logs no session end and starts no
\* persistence thread, whatever the state; only the original participant's
\* disconnect closes an open latch.
C28_OtherDisconnectIsNoSignal ==
  [][/\ OtherDisconnectDelivered =>
          /\ notion_saved' = notion_saved
          /\ sessionEndLogs' = sessionEndLogs
          /\ Handoffs' = Handoffs /\ UNCHANGED <<sinkPending, sinkResults, sinkCalls>>
     /\ (discSeen' > discSeen /\ ~notion_saved) => notion_saved']_vars

\* Another participant left twice while the transcript held an entry; the
\* latch is still open and nothing was logged or started.
C28_Witness ==
  /\ otherSeen = 2 /\ messages # << >> /\ pc = "registered"
  /\ ~notion_saved /\ sessionEndLogs = 0 /\ Handoffs = 0

====
